---- MODULE Spec2Model ----
(***************************************************************************)
(* State-machine model of PhotoEditor (src/Advanced_AI_Photo_Editor.py):   *)
(* the editing session (original_image, current_image, history,            *)
(* redo_stack, zoom_level), the open blur dialogs, and one action per Tk   *)
(* callback.  Tk runs callbacks one at a time on the main loop, so every   *)
(* handler is one atomic action.  An exception raised inside a callback    *)
(* is reported by Tk and the main loop goes on: the handler stops where    *)
(* it raised and keeps the assignments made before.                        *)
(*                                                                         *)
(* Widgets.  A ttk.Scale runs its command whenever its value is set by a   *)
(* widget command: by the drag bindings, once per reported position, and   *)
(* by slider.set(100) in open_image and reset_image.  Both sliders are     *)
(* created with command = change_saturation / change_brightness(v,         *)
(* save=True).  When __init__ sets them current_image is still None and    *)
(* the command returns at once.                                            *)
(*                                                                         *)
(* zoom_image changes zoom_level only and reads nothing else but           *)
(* current_image's presence; it is kept out of Next, whose state space     *)
(* it would only multiply, and runs in NextZoom beside the two callbacks   *)
(* that assign zoom_level, open_image and reset_image.  zoom_level ranges  *)
(* over a finite set, so zoom steps are not counted in steps.              *)
(*                                                                         *)
(* Images.  An image is a record [mode, size, data]: data holds the        *)
(* samples of the tracked pixels, each lying in a flat-colour              *)
(* neighbourhood (as in the 4x4 all-red image of the end-to-end            *)
(* scenario).  Samples are 8-bit integers.                                 *)
(***************************************************************************)
EXTENDS Integers, Sequences, FiniteSets, TLC

VARIABLES
    original_image,   \* self.original_image (None before the first load)
    current_image,    \* self.current_image
    history,          \* self.history
    redo_stack,       \* self.redo_stack
    zoom_level,       \* self.zoom_level, in hundredths (the percent of update_image_info)
    blur_dialogs,     \* number of open "Select Blur Level" dialogs
    error,            \* how the last callback ended
    lastOp,           \* observer: name of the last callback
    steps,            \* observer: number of callbacks run
    nSaves,           \* observer: save_history calls since the baseline of the last load
    undone,           \* observer: an undo popped an entry since the last load
    undoSinceSave,    \* observer: an undo popped an entry since the last save_history
    trail,            \* observer: "loaded", then "edits" while only edits follow the load
    preEdit,          \* observer: current_image just before the most recent edit
    gesture,          \* observer: the slider gesture in progress or just committed
    preUndo,          \* observer: current_image just before the undo that ran last
    blurSnaps         \* observer: per open blur dialog, the entry its blur_image pushed

vars == <<original_image, current_image, history, redo_stack, zoom_level,
          blur_dialogs, error, lastOp, steps, nSaves, undone, undoSinceSave,
          trail, preEdit, gesture, preUndo, blurSnaps>>

(***************************************************************************)
(* Bounds and program constants                                            *)
(***************************************************************************)
MaxSteps == 4
MaxDialogs == 1
PreloadEdits == 16

HistoryLimit == 20

None == [mode |-> "None", size |-> <<0, 0>>, data |-> <<>>]

\* show_welcome_image: an 800x600 RGB image filled with #333333
WelcomeImage == [mode |-> "RGB", size |-> <<800, 600>>, data |-> << <<51, 51, 51>> >>]

\* Files the user can pick, already decoded by Image.open(path).convert('RGB')
LoadImages ==
    { [mode |-> "RGB", size |-> <<4, 4>>, data |-> << <<255, 0, 0>> >>],
      [mode |-> "RGB", size |-> <<20, 30>>, data |-> << <<0, 0, 0>> >>],
      [mode |-> "RGB", size |-> <<30, 30>>, data |-> << <<10, 200, 90>> >>] }

\* Positions reported by a ttk.Scale(from_=0, to=200)
SliderValues == {0, 100, 200}

\* Positions of the blur dialog's Scale(from_=1, to=10)
BlurRadii == {2}

\* Colours returned by colorchooser.askcolor
Colours == { <<0, 0, 255>>, <<17, 34, 51>> }

NoColour == <<>>

(***************************************************************************)
(* Pixel arithmetic (Pillow, OpenCV)                                       *)
(***************************************************************************)
Clip(x) == IF x < 0 THEN 0 ELSE IF x > 255 THEN 255 ELSE x

\* Pillow's RGB -> L conversion
Luma(p) == (p[1] * 19595 + p[2] * 38470 + p[3] * 7471 + 32768) \div 65536

\* Image.convert('RGB'): an RGBA image loses its alpha band
convert_RGB(img) ==
    [mode |-> "RGB", size |-> img.size,
     data |-> [i \in 1..Len(img.data) |-> SubSeq(img.data[i], 1, 3)]]

\* Image.blend(im1, im2, alpha) on one sample, alpha = value / 100
BlendSample(a, b, value) ==
    IF value = 0 THEN a
    ELSE IF value = 100 THEN b
    ELSE Clip((100 * a + value * (b - a)) \div 100)

\* ImageEnhance.Color(img).enhance(value / 100): blend of the grey image
\* and the image; the alpha band, when present, is the image's own
EnhanceColor(img, value) ==
    LET f(p) == [k \in 1..Len(p) |->
                    IF k <= 3 THEN BlendSample(Luma(p), p[k], value) ELSE p[k]]
    IN [img EXCEPT !.data = [i \in 1..Len(img.data) |-> f(img.data[i])]]

\* ImageEnhance.Brightness(img).enhance(value / 100): blend of black and
\* the image, alpha band kept
EnhanceBrightness(img, value) ==
    LET f(p) == [k \in 1..Len(p) |->
                    IF k <= 3 THEN BlendSample(0, p[k], value) ELSE p[k]]
    IN [img EXCEPT !.data = [i \in 1..Len(img.data) |-> f(img.data[i])]]

Enhance(kind, img, value) ==
    IF kind = "saturation" THEN EnhanceColor(img, value)
    ELSE EnhanceBrightness(img, value)

\* lambda img: ImageOps.grayscale(img).convert('RGB')
grayscale_filter(img) ==
    [ok |-> TRUE,
     img |-> [mode |-> "RGB", size |-> img.size,
              data |-> [i \in 1..Len(img.data) |->
                          <<Luma(img.data[i]), Luma(img.data[i]), Luma(img.data[i])>>]]]

\* ImageOps.invert: a lookup table for modes L and RGB, OSError otherwise
invert(img) ==
    IF img.mode = "RGB"
    THEN [ok |-> TRUE,
          img |-> [img EXCEPT !.data = [i \in 1..Len(img.data) |->
                                          [k \in 1..3 |-> 255 - img.data[i][k]]]]]
    ELSE [ok |-> FALSE, img |-> img]

RoundDiv1000(x) == (x + 500) \div 1000

\* sepia_filter: cv2.transform with the 3x3 matrix needs a 3-channel array
\* and raises cv2.error on a 4-channel one; results saturate to 8 bits
SepiaPixel(p) ==
    << Clip(RoundDiv1000(393 * p[1] + 769 * p[2] + 189 * p[3])),
       Clip(RoundDiv1000(349 * p[1] + 686 * p[2] + 168 * p[3])),
       Clip(RoundDiv1000(272 * p[1] + 534 * p[2] + 131 * p[3])) >>

sepia_filter(img) ==
    IF img.mode = "RGB"
    THEN [ok |-> TRUE,
          img |-> [img EXCEPT !.data = [i \in 1..Len(img.data) |->
                                          SepiaPixel(img.data[i])]]]
    ELSE [ok |-> FALSE, img |-> img]

ApplyFilterFunc(name, img) ==
    IF name = "grayscale" THEN grayscale_filter(img)
    ELSE IF name = "negative" THEN invert(img)
    ELSE sepia_filter(img)

FilterNames == {"grayscale", "negative", "sepia"}

\* Image.filter(ImageFilter.GaussianBlur(r)) on a flat neighbourhood: the
\* weights sum to one, the sample is returned as it is
GaussianBlur(img, r) == img

(***************************************************************************)
(* History                                                                 *)
(***************************************************************************)
\* Mutant of Evict: the newest entry is dropped instead of the oldest
Evict_newest(h) == IF Len(h) > HistoryLimit THEN SubSeq(h, 1, Len(h) - 1) ELSE h

\* Mutant of Evict: the history is never trimmed
Evict_never(h) == h

\* if len(self.history) > 20: self.history.pop(0)
Evict(h) == IF Len(h) > HistoryLimit THEN Tail(h) ELSE h

\* Mutant of save_history: the image is stored without convert('RGB')
save_history_keeps_mode(s) ==
    IF s.current # None
    THEN [s EXCEPT !.history = Evict(Append(s.history, s.current)),
                   !.redo = <<>>]
    ELSE s

\* Mutant of save_history: the redo stack is not cleared
save_history_keeps_redo(s) ==
    IF s.current # None
    THEN [s EXCEPT !.history = Evict(Append(s.history, convert_RGB(s.current)))]
    ELSE s

\* save_history on a session record [current, history, redo]
save_history(s) ==
    IF s.current # None
    THEN [s EXCEPT !.history = Evict(Append(s.history, convert_RGB(s.current))),
                   !.redo = <<>>]
    ELSE s

\* Mutant of CanUndo: the baseline entry may be popped too
CanUndo_baseline(h) == Len(h) >= 1

\* if len(self.history) > 1
CanUndo(h) == Len(h) > 1

Session == [current |-> current_image, history |-> history, redo |-> redo_stack]

\* change_saturation / change_brightness(value, save)
change_enhance(kind, s, value, save) ==
    IF s.current = None THEN s
    ELSE LET s1 == IF save THEN save_history(s) ELSE s
         IN [s1 EXCEPT !.current = Enhance(kind, s1.current, value)]

\* Mutant of reset_sliders: setting a slider does not run its command
reset_sliders_silent(s) == s

\* self.sat_slider.set(100); self.bright_slider.set(100).  ttk::scale's set
\* widget command invokes the scale's -command with the new value, and both
\* sliders were created with command=lambda v: self.change_...(v, save=True)
reset_sliders(s) ==
    change_enhance("brightness", change_enhance("saturation", s, 100, TRUE), 100, TRUE)

\* apply_filter's effect on the session: save_history(), then the filter
\* function; when the function raises, current_image keeps its value
filter_session(name, s) ==
    LET s1 == save_history(s)
    IN [s1 EXCEPT !.current = ApplyFilterFunc(name, s1.current).img]

\* Image.alpha_composite(bg_img, current_image) on one pixel, the
\* background being opaque (Pillow's integer arithmetic)
ShiftForDiv255(x) == ((x \div 256) + x) \div 256

\* Mutant of CompositePixel: the foreground is made opaque, the background
\* colour is not used
CompositePixel_foreground_only(c, p) == <<p[1], p[2], p[3], 255>>

CompositePixel(c, p) ==
    IF p[4] = 0 THEN <<c[1], c[2], c[3], 255>>
    ELSE LET outa255 == p[4] * 255 + 255 * (255 - p[4])
             coef1 == (p[4] * 255 * 255 * 128) \div outa255
             coef2 == 255 * 128 - coef1
             ch(k) == ShiftForDiv255(p[k] * coef1 + c[k] * coef2 + 16384) \div 128
         IN <<ch(1), ch(2), ch(3), ShiftForDiv255(outa255 + 128)>>

alpha_composite(c, img) ==
    [img EXCEPT !.data = [i \in 1..Len(img.data) |-> CompositePixel(c, img.data[i])]]

\* mask2 from grabCut, result = img * mask2, alpha = mask2 * 255
MaskedRGBA(img, mask) ==
    [mode |-> "RGBA", size |-> img.size,
     data |-> [i \in 1..Len(img.data) |->
                 << img.data[i][1] * mask[i], img.data[i][2] * mask[i],
                    img.data[i][3] * mask[i], 255 * mask[i] >>]]

\* rect = (10, 10, w-20, h-20): grabCut needs a rectangle of positive
\* width and height inside the image
\* Mutant of RectFits: a rectangle of width or height zero is accepted
RectFits_inclusive(img) == img.size[1] >= 20 /\ img.size[2] >= 20

RectFits(img) == img.size[1] > 20 /\ img.size[2] > 20

Masks(img) == [1..Len(img.data) -> {0, 1}]

\* Mutant of ZoomClamp: the lower limit is left out
ZoomClamp_no_floor(z) == IF z > 1000 THEN 1000 ELSE z

\* zoom_level *= factor, clamped to [0.1, 10.0]; hundredths, factor in tenths
ZoomClamp(z) == IF z < 10 THEN 10 ELSE IF z > 1000 THEN 1000 ELSE z

\* open_image after a successful decode: history and redo_stack cleared,
\* save_history(), then the two sliders are set to 100
loaded_session(img) ==
    reset_sliders(save_history([current |-> img, history |-> <<>>, redo |-> <<>>]))

\* Mutant of decoded_original: the field is assigned before decoding ends
decoded_original_early(outcome, img, orig) ==
    IF outcome = "ok" THEN img ELSE IF outcome = "fail" THEN None ELSE orig

\* self.original_image = Image.open(path).convert('RGB'): the assignment
\* runs only when a path was chosen and decoding did not raise
decoded_original(outcome, img, orig) ==
    IF outcome = "ok" THEN img ELSE orig

\* Mutant of open_session: the logs are cleared before the file is decoded
open_session_clears_first(outcome, img, s) ==
    IF outcome = "ok" THEN loaded_session(img)
    ELSE IF outcome = "fail" THEN [s EXCEPT !.history = <<>>, !.redo = <<>>]
    ELSE s

\* open_image's effect on current_image, history and redo_stack
open_session(outcome, img, s) ==
    IF outcome = "ok" THEN loaded_session(img) ELSE s

\* Mutant of segmentation: current_image is replaced before grabCut raises
segmentation_assigns_first(img, mask) ==
    [ok |-> RectFits(img), img |-> MaskedRGBA(img, mask)]

\* The try block of remove_background: cv2.grabCut raises cv2.error when
\* the rectangle (10, 10, w-20, h-20) has no positive width and height
\* (negative: the mask ROI assertion; zero: no foreground sample for the
\* colour model); otherwise the masked RGBA image is built
segmentation(img, mask) ==
    IF RectFits(img)
    THEN [ok |-> TRUE, img |-> MaskedRGBA(img, mask)]
    ELSE [ok |-> FALSE, img |-> img]

\* Mutant of NeedsTransparency: only the missing image is rejected
NeedsTransparency_any_mode(img) == img = None

\* if not self.current_image or self.current_image.mode != 'RGBA'
NeedsTransparency(img) == img = None \/ img.mode # "RGBA"

\* Image.alpha_composite(bg_img, self.current_image): Pillow raises
\* ValueError unless both images are RGBA
composite(colour, img) ==
    IF img.mode = "RGBA"
    THEN [ok |-> TRUE, img |-> alpha_composite(colour, img)]
    ELSE [ok |-> FALSE, img |-> img]

Min(a, b) == IF a < b THEN a ELSE b

\* q without its d-th element
RemoveAt(q, d) == SubSeq(q, 1, d - 1) \o SubSeq(q, d + 1, Len(q))

NoGesture == [active |-> FALSE, kind |-> "none", base |-> None, startLen |-> 0,
              last |-> 0, moves |-> 0]

(***************************************************************************)
(* Initial state: PhotoEditor.__init__                                     *)
(***************************************************************************)
Init ==
    /\ original_image = None
    /\ current_image = WelcomeImage
    /\ history = <<>>
    /\ redo_stack = <<>>
    /\ zoom_level = 100
    /\ blur_dialogs = 0
    /\ error = "none"
    /\ lastOp = "init"
    /\ steps = 0
    /\ nSaves = 0
    /\ undone = FALSE
    /\ undoSinceSave = FALSE
    /\ trail = "none"
    /\ preEdit = None
    /\ gesture = NoGesture
    /\ preUndo = None
    /\ blurSnaps = <<>>

Tick(op) ==
    /\ steps < MaxSteps
    /\ steps' = steps + 1
    /\ lastOp' = op
    /\ preUndo' = (IF op = "undo" /\ CanUndo(history) THEN current_image ELSE None)

Install(s) ==
    /\ current_image' = s.current
    /\ history' = s.history
    /\ redo_stack' = s.redo

Saved(n) ==
    /\ nSaves' = nSaves + n
    /\ undoSinceSave' = FALSE

(***************************************************************************)
(* Callbacks                                                               *)
(***************************************************************************)
\* open_image: the dialog is cancelled, or decoding raises, or the image loads
open_image(outcome, img) ==
    /\ Tick("open_image")
    /\ original_image' = decoded_original(outcome, img, original_image)
    /\ Install(open_session(outcome, img, Session))
    /\ IF outcome = "ok"
       THEN /\ zoom_level' = 100
            /\ error' = "none"
            /\ nSaves' = 2
            /\ undone' = FALSE
            /\ undoSinceSave' = FALSE
            /\ trail' = "loaded"
            /\ preEdit' = None
       ELSE /\ error' = (IF outcome = "fail" THEN "DecodeError" ELSE "none")
            /\ trail' = "other"
            /\ UNCHANGED <<zoom_level, nSaves, undone, undoSinceSave, preEdit>>
    /\ gesture' = NoGesture
    /\ UNCHANGED <<blur_dialogs, blurSnaps>>

\* undo
undo ==
    /\ Tick("undo")
    /\ IF CanUndo(history)
       THEN LET r1 == Append(redo_stack, history[Len(history)])
                h1 == SubSeq(history, 1, Len(history) - 1)
            IN /\ redo_stack' = r1
               /\ history' = h1
               /\ IF Len(h1) > 0
                  THEN /\ current_image' = h1[Len(h1)]
                       /\ error' = "none"
                  ELSE /\ current_image' = current_image
                       /\ error' = "IndexError"
               /\ undone' = TRUE
               /\ undoSinceSave' = TRUE
       ELSE /\ error' = "none"
            /\ UNCHANGED <<current_image, history, redo_stack, undone, undoSinceSave>>
    /\ trail' = "other"
    /\ gesture' = NoGesture
    /\ UNCHANGED <<original_image, zoom_level, blur_dialogs, blurSnaps, nSaves, preEdit>>

\* redo: save_history() runs first, then self.redo_stack.pop()
redo ==
    /\ Tick("redo")
    /\ IF redo_stack # <<>>
       THEN LET s1 == save_history(Session)
            IN /\ history' = s1.history
               /\ IF s1.redo # <<>>
                  THEN /\ current_image' = s1.redo[Len(s1.redo)]
                       /\ redo_stack' = SubSeq(s1.redo, 1, Len(s1.redo) - 1)
                       /\ error' = "none"
                  ELSE /\ current_image' = s1.current
                       /\ redo_stack' = s1.redo
                       /\ error' = "IndexError"
               /\ Saved(1)
       ELSE /\ error' = "none"
            /\ UNCHANGED <<current_image, history, redo_stack, nSaves, undoSinceSave>>
    /\ trail' = "other"
    /\ gesture' = NoGesture
    /\ UNCHANGED <<original_image, zoom_level, blur_dialogs, blurSnaps, undone, preEdit>>

\* reset_image
reset_image ==
    /\ Tick("reset_image")
    /\ IF original_image # None
       THEN LET s1 == save_history(Session)
                s2 == [s1 EXCEPT !.current = original_image]
                s3 == reset_sliders(s2)
            IN /\ Install(s3)
               /\ zoom_level' = 100
               /\ Saved(3)
       ELSE UNCHANGED <<current_image, history, redo_stack, zoom_level, nSaves,
                        undoSinceSave>>
    /\ error' = "none"
    /\ trail' = "other"
    /\ gesture' = NoGesture
    /\ UNCHANGED <<original_image, blur_dialogs, blurSnaps, undone, preEdit>>

\* apply_grayscale / apply_negative / apply_sepia through apply_filter
apply_filter(name) ==
    /\ Tick(name)
    /\ IF current_image # None
       THEN LET res == ApplyFilterFunc(name, current_image)
            IN /\ Install(filter_session(name, Session))
               /\ error' = (IF res.ok THEN "none" ELSE "FilterError")
               /\ Saved(1)
               /\ trail' = (IF res.ok /\ trail \in {"loaded", "edits"}
                            THEN "edits" ELSE "other")
               /\ preEdit' = current_image
       ELSE /\ error' = "none"
            /\ trail' = "other"
            /\ UNCHANGED <<current_image, history, redo_stack, nSaves,
                           undoSinceSave, preEdit>>
    /\ gesture' = NoGesture
    /\ UNCHANGED <<original_image, zoom_level, blur_dialogs, blurSnaps, undone>>

\* The Scale's command: change_saturation(v, save=True) or
\* change_brightness(v, save=True), once per reported slider position
slider_moved(kind, value) ==
    /\ Tick(kind)
    /\ IF current_image # None
       THEN /\ Install(change_enhance(kind, Session, value, TRUE))
            /\ Saved(1)
            /\ trail' = (IF trail \in {"loaded", "edits"} THEN "edits" ELSE "other")
            /\ preEdit' = current_image
            /\ gesture' = IF gesture.active /\ gesture.kind = kind
                          THEN [gesture EXCEPT !.last = value,
                                               !.moves = Min(gesture.moves + 1, 2)]
                          ELSE [active |-> TRUE, kind |-> kind, base |-> current_image,
                                startLen |-> Len(history), last |-> value, moves |-> 1]
       ELSE /\ trail' = "other"
            /\ gesture' = NoGesture
            /\ UNCHANGED <<current_image, history, redo_stack, nSaves,
                           undoSinceSave, preEdit>>
    /\ error' = "none"
    /\ UNCHANGED <<original_image, zoom_level, blur_dialogs, blurSnaps, undone>>

\* The mouse button is released over the slider: the gesture ends.  No
\* callback of the program is bound to it
slider_released ==
    /\ gesture.active
    /\ Tick("release")
    /\ gesture' = [gesture EXCEPT !.active = FALSE]
    /\ UNCHANGED <<original_image, current_image, history, redo_stack, zoom_level,
                   blur_dialogs, blurSnaps, error, nSaves, undone, undoSinceSave, trail, preEdit>>

\* blur_image: save_history(), then the dialog opens (it is not modal)
blur_image ==
    /\ blur_dialogs < MaxDialogs
    /\ Tick("blur_image")
    /\ IF current_image # None
       THEN /\ Install(save_history(Session))
            /\ blur_dialogs' = blur_dialogs + 1
            /\ blurSnaps' = Append(blurSnaps, convert_RGB(current_image))
            /\ Saved(1)
       ELSE UNCHANGED <<current_image, history, redo_stack, blur_dialogs, blurSnaps, nSaves,
                        undoSinceSave>>
    /\ error' = "none"
    /\ gesture' = NoGesture
    /\ UNCHANGED <<original_image, zoom_level, undone, trail, preEdit>>

\* apply_blur: the Apply button of the d-th open blur dialog
apply_blur(r, d) ==
    /\ blur_dialogs > 0
    /\ Tick("apply_blur")
    /\ current_image' = GaussianBlur(current_image, r)
    /\ blur_dialogs' = blur_dialogs - 1
    /\ blurSnaps' = RemoveAt(blurSnaps, d)
    /\ error' = "none"
    /\ trail' = (IF trail \in {"loaded", "edits"} THEN "edits" ELSE "other")
    /\ preEdit' = current_image
    /\ gesture' = NoGesture
    /\ UNCHANGED <<original_image, history, redo_stack, zoom_level, nSaves, undone,
                   undoSinceSave>>

\* The blur dialog is closed from its title bar
close_blur_dialog(d) ==
    /\ blur_dialogs > 0
    /\ Tick("close_blur_dialog")
    /\ blur_dialogs' = blur_dialogs - 1
    /\ blurSnaps' = RemoveAt(blurSnaps, d)
    /\ error' = "none"
    /\ trail' = "other"
    /\ gesture' = NoGesture
    /\ UNCHANGED <<original_image, current_image, history, redo_stack, zoom_level,
                   nSaves, undone, undoSinceSave, preEdit>>

\* remove_background: save_history(), then grabCut inside try/except
remove_background(mask) ==
    /\ Tick("remove_background")
    /\ IF current_image # None
       THEN LET s1 == save_history(Session)
                res == segmentation(s1.current, mask)
            IN /\ Install([s1 EXCEPT !.current = res.img])
               /\ IF res.ok
                  THEN /\ error' = "none"
                       /\ trail' = (IF trail \in {"loaded", "edits"}
                                    THEN "edits" ELSE "other")
                  ELSE /\ error' = "SegmentationError"
                       /\ trail' = "other"
               /\ Saved(1)
               /\ preEdit' = current_image
       ELSE /\ error' = "none"
            /\ trail' = "other"
            /\ UNCHANGED <<current_image, history, redo_stack, nSaves,
                           undoSinceSave, preEdit>>
    /\ gesture' = NoGesture
    /\ UNCHANGED <<original_image, zoom_level, blur_dialogs, blurSnaps, undone>>

\* set_custom_background: colour is NoColour when the colour dialog is cancelled
set_custom_background(colour) ==
    /\ Tick("set_custom_background")
    /\ IF NeedsTransparency(current_image)
       THEN /\ error' = "info"
            /\ trail' = "other"
            /\ UNCHANGED <<current_image, history, redo_stack, nSaves,
                           undoSinceSave, preEdit>>
       ELSE IF colour # NoColour
       THEN LET s1 == save_history(Session)
                res == composite(colour, s1.current)
            IN /\ Install([s1 EXCEPT !.current = res.img])
               /\ error' = (IF res.ok THEN "none" ELSE "ValueError")
               /\ Saved(1)
               /\ trail' = (IF res.ok /\ trail \in {"loaded", "edits"}
                            THEN "edits" ELSE "other")
               /\ preEdit' = current_image
       ELSE /\ error' = "cancelled"
            /\ trail' = "other"
            /\ UNCHANGED <<current_image, history, redo_stack, nSaves,
                           undoSinceSave, preEdit>>
    /\ gesture' = NoGesture
    /\ UNCHANGED <<original_image, zoom_level, blur_dialogs, blurSnaps, undone>>

\* save_image: writes current_image to a file; failures are caught
save_image(outcome) ==
    /\ Tick("save_image")
    /\ error' = (IF current_image = None THEN "warning"
                 ELSE IF outcome = "fail" THEN "EncodeError" ELSE "none")
    /\ trail' = "other"
    /\ gesture' = NoGesture
    /\ UNCHANGED <<original_image, current_image, history, redo_stack, zoom_level,
                   blur_dialogs, blurSnaps, nSaves, undone, undoSinceSave, preEdit>>

\* zoom_image(factor, reset): Ctrl-plus 1.1, Ctrl-minus 0.9, Ctrl-0 reset
zoom_image(tenths, reset) ==
    /\ lastOp' = "zoom_image"
    /\ preUndo' = None
    /\ UNCHANGED steps
    /\ IF current_image = None
       THEN UNCHANGED zoom_level
       ELSE IF reset
       THEN zoom_level' = 100
       ELSE zoom_level' = ZoomClamp((zoom_level * tenths) \div 10)
    /\ error' = "none"
    /\ trail' = "other"
    /\ gesture' = NoGesture
    /\ UNCHANGED <<original_image, current_image, history, redo_stack, blur_dialogs, blurSnaps,
                   nSaves, undone, undoSinceSave, preEdit>>

Next ==
    \/ \E outcome \in {"cancel", "fail"} : open_image(outcome, None)
    \/ \E img \in LoadImages : open_image("ok", img)
    \/ undo
    \/ redo
    \/ reset_image
    \/ \E name \in FilterNames : apply_filter(name)
    \/ \E kind \in {"saturation", "brightness"}, v \in SliderValues : slider_moved(kind, v)
    \/ slider_released
    \/ blur_image
    \/ \E r \in BlurRadii, d \in 1..blur_dialogs : apply_blur(r, d)
    \/ \E d \in 1..blur_dialogs : close_blur_dialog(d)
    \/ \E mask \in Masks(current_image) : remove_background(mask)
    \/ \E colour \in Colours \cup {NoColour} : set_custom_background(colour)
    \/ \E outcome \in {"ok", "fail"} : save_image(outcome)

Spec == Init /\ [][Next]_vars

(***************************************************************************)
(* A session with a long history: an image was loaded and apply_negative   *)
(* ran PreloadEdits times.  From there the same callbacks run.             *)
(***************************************************************************)
RECURSIVE AfterNegatives(_, _)
AfterNegatives(s, k) ==
    IF k = 0 THEN s ELSE AfterNegatives(filter_session("negative", s), k - 1)

InitCap ==
    \E img \in LoadImages :
        LET s == AfterNegatives(loaded_session(img), PreloadEdits)
        IN /\ original_image = img
           /\ current_image = s.current
           /\ history = s.history
           /\ redo_stack = s.redo
           /\ zoom_level = 100
           /\ blur_dialogs = 0
           /\ error = "none"
           /\ lastOp = "negative"
           /\ steps = 0
           /\ nSaves = 2 + PreloadEdits
           /\ undone = FALSE
           /\ undoSinceSave = FALSE
           /\ trail = "edits"
           /\ preEdit = AfterNegatives(loaded_session(img), PreloadEdits - 1).current
           /\ gesture = NoGesture
           /\ preUndo = None
           /\ blurSnaps = <<>>

SpecCap == InitCap /\ [][Next]_vars

(***************************************************************************)
(* The view: the three zoom shortcuts beside the callbacks that assign     *)
(* zoom_level.                                                             *)
(***************************************************************************)
NextZoom ==
    \/ \E tenths \in {9, 11} : zoom_image(tenths, FALSE)
    \/ zoom_image(10, TRUE)
    \/ \E outcome \in {"cancel", "fail"} : open_image(outcome, None)
    \/ \E img \in LoadImages : open_image("ok", img)
    \/ reset_image

SpecZoom == Init /\ [][NextZoom]_vars

(***************************************************************************)
(* Properties                                                              *)
(***************************************************************************)
\* The step runs callback op
Ran(op) == steps' = steps + 1 /\ lastOp' = op

Last(q) == q[Len(q)]

\* The newest HistoryLimit entries of h
KeepNewest(h) ==
    IF Len(h) > HistoryLimit THEN SubSeq(h, Len(h) - HistoryLimit + 1, Len(h)) ELSE h

Loaded == original_image # None

\* C1: after a load and one or more edits, one undo sets current_image to
\* the image that was current just before the most recent edit.
C1_UndoRestoresPreEdit ==
    [][(Ran("undo") /\ trail = "edits") => current_image' = preEdit]_vars

\* C2: whenever redo_stack is not empty, redo ends without error, pushes
\* the pre-redo current image onto history and installs the top of
\* redo_stack as current_image.
C2_RedoInstallsTarget ==
    [][(Ran("redo") /\ redo_stack # <<>>)
         => /\ error' = "none"
            /\ current_image' = Last(redo_stack)
            /\ Last(history') = convert_RGB(current_image)]_vars

\* C3: undo right after a successful load changes none of current_image,
\* history and redo_stack.
C3_UndoAfterLoadNoOp ==
    [][(Ran("undo") /\ trail = "loaded")
         => UNCHANGED <<current_image, history, redo_stack>>]_vars

\* C4 as stated: for 0 <= n <= 20, after a load followed by n save_history
\* calls and no undo, history holds n + 1 entries.
C4_LengthIsSavesPlusOne ==
    (Loaded /\ ~undone /\ nSaves <= 20) => Len(history) = nSaves + 1

\* C4 as amended: for 0 <= n <= 20, after the baseline push of a load
\* followed by n save_history calls and no undo, history holds
\* min(n + 1, 20) entries: n + 1 up to n = 19, and 20 at n = 20.
C4_LengthIsSavesPlusOneCapped ==
    (Loaded /\ ~undone /\ nSaves <= 20)
        => Len(history) = Min(nSaves + 1, HistoryLimit)

C4_Witness == Loaded /\ ~undone /\ nSaves = 20 /\ Len(history) = HistoryLimit

\* C5: history never holds more than 20 entries, and a save_history that
\* would exceed 20 removes the oldest entries, the others keeping their
\* order (history' is the newest 20 of the old entries followed by the new).
C5_CapEvictsOldest ==
    [][/\ Len(history) <= HistoryLimit
       /\ Len(history') <= HistoryLimit
       /\ (nSaves' > nSaves /\ ~Ran("open_image"))
            => LET pushed == nSaves' - nSaves
                   evicted == Len(history) + pushed - Len(history')
               IN /\ evicted >= 0
                  /\ evicted <= Len(history)
                  /\ evicted > 0 => Len(history') = HistoryLimit
                  /\ SubSeq(history', 1, Len(history) - evicted)
                        = SubSeq(history, evicted + 1, Len(history))]_vars

C5_Witness ==
    /\ Loaded /\ ~undone
    /\ nSaves > HistoryLimit
    /\ Len(history) = HistoryLimit
    /\ history[1] # history[2]

\* C6: every save_history leaves redo_stack empty, and a redo that follows
\* a save_history with no undo in between changes neither current_image
\* nor history.
C6_SaveClearsRedo ==
    [][/\ (nSaves' # nSaves \/ trail' = "loaded") => redo_stack' = <<>>
       /\ (Ran("redo") /\ ~undoSinceSave)
            => UNCHANGED <<current_image, history, redo_stack>>]_vars

C6_Witness ==
    /\ lastOp = "redo" /\ ~undoSinceSave /\ undone /\ nSaves > 2
    /\ redo_stack = <<>>

\* C7 as stated: after reset_image both logs were emptied and the baseline
\* pushed: history holds exactly the original image and redo_stack is empty.
C7_ResetLeavesBaselineOnly ==
    (lastOp = "reset_image" /\ Loaded)
        => /\ Len(history) = 1
           /\ history[1] = original_image
           /\ redo_stack = <<>>

\* C7 as amended: reset_image does not empty history.  After it
\* current_image is the original image, redo_stack is empty, and history is
\* its previous content followed by the pre-reset current image (as RGB)
\* and two snapshots of the original image (pushed when the sliders are
\* set back to 100), trimmed to its newest 20 entries.
C7_ResetPushesOntoHistory ==
    [][(Ran("reset_image") /\ Loaded)
         => /\ current_image' = original_image
            /\ redo_stack' = <<>>
            /\ history' = KeepNewest(history \o <<convert_RGB(current_image),
                                                   original_image, original_image>>)]_vars

C7_Witness ==
    /\ lastOp = "reset_image" /\ Loaded
    /\ current_image = original_image
    /\ Len(history) = HistoryLimit
    /\ Last(history) = original_image

\* C8: one slider gesture (one or more slider movements, then the release)
\* adds exactly one entry to history.
C8_OneEntryPerGesture ==
    (lastOp = "release" /\ Loaded) => Len(history) = gesture.startLen + 1

\* C9: within one gesture, current_image is the adjustment with the last
\* reported value applied to the image that was current when the gesture
\* started, whatever the earlier values were.
C9_AdjustFromBase ==
    (gesture.active /\ Loaded)
        => current_image = Enhance(gesture.kind, gesture.base, gesture.last)

\* C10: once an image is loaded, history holds at least one entry.
C10_HistoryNeverEmpty == Loaded => Len(history) >= 1

C10_Witness == Loaded /\ lastOp = "undo" /\ undone /\ Len(history) = 1

\* The callbacks that replace current_image with the result of an edit
EditOps ==
    FilterNames \cup {"apply_blur", "saturation", "brightness",
                      "remove_background", "set_custom_background"}

\* C11: after any callback that replaced current_image with the result of
\* a new edit (a filter, the blur applied from its dialog, a saturation or
\* brightness adjustment, background removal, background fill), redo_stack
\* is empty, whatever the order of the callbacks before it.
C11_EditClearsRedo ==
    (lastOp \in EditOps /\ error = "none") => redo_stack = <<>>

\* C12: original_image changes only in an open_image that decoded its
\* file; edits, undo, redo, reset, background removal and fill, and saving
\* to a file leave it as it is.
C12_OnlyLoadAssignsOriginal ==
    [][original_image' # original_image
         => (Ran("open_image") /\ error' = "none" /\ trail' = "loaded")]_vars

C12_Witness ==
    /\ Loaded /\ lastOp = "set_custom_background" /\ error = "none"
    /\ current_image # original_image

\* C14: a remove_background that fails with a segmentation error leaves
\* current_image as it was before the call.
C14_FailedRemovalKeepsCurrent ==
    [][(Ran("remove_background") /\ error' = "SegmentationError")
         => current_image' = current_image]_vars

C14_Witness ==
    /\ Loaded /\ lastOp = "remove_background" /\ error = "SegmentationError"
    /\ current_image = original_image

\* C15: a remove_background that fails with a segmentation error records
\* no edit: history and redo_stack are as they were before the call.
C15_FailedRemovalKeepsLogs ==
    [][(Ran("remove_background") /\ error' = "SegmentationError")
         => UNCHANGED <<history, redo_stack>>]_vars

\* C16: set_custom_background called while current_image is not RGBA is
\* refused and changes none of current_image, original_image, history and
\* redo_stack.
C16_FillNeedsAlpha ==
    [][(Ran("set_custom_background") /\ current_image.mode # "RGBA")
         => /\ error' = "info"
            /\ UNCHANGED <<current_image, original_image, history, redo_stack>>]_vars

C16_Witness ==
    /\ Loaded /\ lastOp = "set_custom_background" /\ error = "info"
    /\ current_image.mode = "RGB" /\ Len(history) > 3

\* C17: an open_image whose file fails to decode changes none of
\* original_image, current_image, history, redo_stack and zoom_level.
C17_FailedLoadKeepsSession ==
    [][(Ran("open_image") /\ error' = "DecodeError")
         => UNCHANGED <<original_image, current_image, history, redo_stack,
                        zoom_level>>]_vars

C17_Witness ==
    /\ Loaded /\ lastOp = "open_image" /\ error = "DecodeError"
    /\ zoom_level # 100 /\ Len(history) > 3

\* C18: a grayscale, negative or sepia filter keeps the mode of
\* current_image (RGBA stays RGBA, RGB stays RGB) and, on an RGBA image,
\* the alpha sample of every pixel.
C18_FilterKeepsModeAndAlpha ==
    [][(\E name \in FilterNames : Ran(name))
         => /\ current_image'.mode = current_image.mode
            /\ current_image.mode = "RGBA"
                 => \A i \in 1..Len(current_image.data) :
                        current_image'.data[i][4] = current_image.data[i][4]]_vars

\* C19: remove_background on an image whose width or height is at most 20
\* reports a segmentation error and leaves current_image as it was: no
\* masked image is produced.
C19_SmallImageFailsSegmentation ==
    [][(Ran("remove_background")
          /\ (current_image.size[1] <= 20 \/ current_image.size[2] <= 20))
         => /\ error' = "SegmentationError"
            /\ current_image' = current_image]_vars

C19_Witness ==
    /\ lastOp = "remove_background" /\ error = "SegmentationError"
    /\ current_image.size[1] = 20 /\ current_image.size[2] > 20

\* C20: zoom_level lies in [0.1, 10.0] (10..1000 hundredths) in every
\* state reached by zoom-in, zoom-out, zoom-reset, load and reset.
C20_ZoomWithinLimits == zoom_level >= 10 /\ zoom_level <= 1000

C20_Witness == lastOp = "zoom_image" /\ zoom_level = 10

\* C21: for every background colour c, when set_custom_background(c) runs
\* right after a remove_background that produced a mask, every pixel the
\* mask set to 0 (alpha 0 in the masked image) has red, green and blue
\* equal to c in the result, and every pixel of the result has alpha 255.
C21_FillColoursMaskedPixels ==
    [][\A c \in Colours :
         (set_custom_background(c) /\ lastOp = "remove_background" /\ error = "none")
           => \A i \in 1..Len(current_image.data) :
                /\ current_image.data[i][4] = 0
                     => SubSeq(current_image'.data[i], 1, 3) = c
                /\ current_image'.data[i][4] = 255]_vars

C21_Witness ==
    /\ Loaded /\ lastOp = "set_custom_background" /\ error = "none"
    /\ current_image.mode = "RGBA"
    /\ current_image.data[1] = <<17, 34, 51, 255>>

\* C22: undo followed at once by redo is a round trip: whenever the undo
\* was possible, current_image after the redo is current_image as it was
\* before the undo.
C22_UndoRedoRoundTrip ==
    [][(Ran("redo") /\ lastOp = "undo" /\ preUndo # None)
         => current_image' = preUndo]_vars

\* C23: the history entry recorded for a blur is the image the blur is
\* applied to: whatever ran between blur_image and the Apply of its dialog
\* (filters, undo, load, other blur dialogs), when apply_blur runs the
\* entry that blur_image pushed for that dialog equals current_image and
\* is still in history.
C23_BlurSnapshotIsBlurredImage ==
    [][\A r \in BlurRadii, d \in 1..blur_dialogs :
         apply_blur(r, d)
           => /\ blurSnaps[d] = convert_RGB(current_image)
              /\ \E k \in 1..Len(history) : history[k] = blurSnaps[d]]_vars

\* Every snapshot in history and redo_stack has mode RGB
SnapshotsAreRGB ==
    /\ \A k \in 1..Len(history) : history[k].mode = "RGB"
    /\ \A k \in 1..Len(redo_stack) : redo_stack[k].mode = "RGB"

\* C24 as stated: every snapshot in history and redo_stack has mode RGB,
\* so after an undo that restored a snapshot current_image has mode RGB,
\* and set_custom_background called right after any undo is rejected.
C24_FillAfterUndoRejected ==
    [][/\ SnapshotsAreRGB
       /\ (Ran("undo") /\ CanUndo(history)) => current_image'.mode = "RGB"
       /\ (Ran("set_custom_background") /\ lastOp = "undo")
            => (error' = "info" /\ UNCHANGED <<current_image, history, redo_stack>>)]_vars

\* C24 as amended: every snapshot in history and redo_stack has mode RGB,
\* so after an undo that restored a snapshot current_image has mode RGB,
\* and set_custom_background called right after an undo is rejected when
\* that undo restored a snapshot or an image has been loaded.
C24_FillAfterEffectiveUndoRejected ==
    [][/\ SnapshotsAreRGB
       /\ (Ran("undo") /\ CanUndo(history)) => current_image'.mode = "RGB"
       /\ (Ran("set_custom_background") /\ lastOp = "undo"
             /\ (preUndo # None \/ Loaded))
            => (error' = "info" /\ UNCHANGED <<current_image, history, redo_stack>>)]_vars

C24_Witness ==
    /\ Loaded /\ lastOp = "undo" /\ preUndo # None
    /\ preUndo.mode = "RGBA" /\ current_image.mode = "RGB"
    /\ redo_stack # <<>>

====
